---- MODULE Spec2Model ----
(***************************************************************************)
(* pet-republic-api: the Airtable -> D1 import and the R2 image batch.     *)
(*                                                                         *)
(* Two worker variants of src/src/index.js are modelled.                   *)
(*   Spec      the "v3.2 Cron" worker (index.js 983-1290): the importer    *)
(*             syncFromAirtable writes the products table, the cron        *)
(*             handler scheduled copies pending images into R2.            *)
(*   SpecSync  the syncAirtable worker (index.js 4-176) with the V3 schema *)
(*             products / product_images.                                  *)
(*                                                                         *)
(* Strings are atoms; a text that the code parses is a record or a tuple   *)
(* of its parts (see cleanAirtableRecord), so that the parse is computed.  *)
(***************************************************************************)
EXTENDS Integers, Sequences, FiniteSets, TLC

\* ------------------------------------------------------------------------
\* Bounds of the model.
\* ------------------------------------------------------------------------
\* Longest record list the Airtable source returns in one run.
MaxRecs == 2
\* BATCH_SIZE of the cron handler (10 in the source), scaled to the model.
BATCH_SIZE == 2
\* batchSize of syncFromAirtable (100 in the source), scaled to the model.
batchSize == 1

\* MAX_IMAGE_MB default of the upload handlers, the configured maximum.
MAX_IMAGE_MB == 20

\* SQL NULL, JavaScript null and undefined.
Null == "null"
\* No row with that key in a table, no object under that key in R2.
NoRow == [norow |-> TRUE]
NoObject == [noobject |-> TRUE]

\* JavaScript falsiness of a field value: !v
Falsy(v) == v \in {Null, ""}
\* a || b
OrElse(a, b) == IF Falsy(a) THEN b ELSE a

Min(a, b) == IF a < b THEN a ELSE b

\* The credentials of the Airtable source in env, each set or not.
Credentials == [AIRTABLE_API_TOKEN : BOOLEAN, AIRTABLE_BASE_ID : BOOLEAN,
                AIRTABLE_TABLE_NAME : BOOLEAN]
\* All three are set: the negation of the test of syncFromAirtable.
Configured(env) ==
  env.AIRTABLE_API_TOKEN /\ env.AIRTABLE_BASE_ID /\ env.AIRTABLE_TABLE_NAME

\* ------------------------------------------------------------------------
\* The Airtable source of the cron worker.
\* ------------------------------------------------------------------------
U_OLD == "http://x/old/a.jpg"
U_NEW == "http://x/new/a.jpg"
U_NEWJPG == "http://x/new.jpg"
U_DIR == "http://x/dir/"

\* Values of the field 商品圖檔 (img), each text given by its parts:
\*   absent  the record has no such field
\*   named   the text "file (url)" that the regex of line 1215 matches
\*   url     a text starting with http that new URL() accepts, with its href
\*           and the segments of its pathname split at "/"
\*   badurl  a text starting with http that new URL() rejects
\*   text    any other text
ImgAbsent == [kind |-> "absent"]
ImgOld == [kind |-> "named", file |-> "a.jpg", url |-> U_OLD]
ImgNew == [kind |-> "named", file |-> "a.jpg", url |-> U_NEW]
ImgNewJpg == [kind |-> "url", href |-> U_NEWJPG, segments |-> <<"", "new.jpg">>]
ImgDir == [kind |-> "url", href |-> U_DIR, segments |-> <<"", "dir", "">>]
ImgBadUrl == [kind |-> "badurl"]
ImgText == [kind |-> "text"]
ImageFieldValues == {ImgAbsent, ImgOld, ImgNew, ImgNewJpg, ImgDir, ImgBadUrl, ImgText}

\* Values of the field 商品貨號 (sku) and 產品名稱 (title).
SkuFieldValues == {Null, "", "A", "B", "C"}
TitleFieldValues == {Null, "t1"}

\* fields of one Airtable record
Fields == [sku : SkuFieldValues, title : TitleFieldValues, img : ImageFieldValues]

\* The records the model's source draws from.
SourceRecords ==
  { f \in Fields :
      \/ f.sku = "A" /\ f.title = "t1" /\ f.img \in {ImgOld, ImgNew, ImgNewJpg}
      \/ f.sku = "B" /\ f.title = Null /\ f.img \in {ImgDir}
      \/ f.sku = "C" /\ f.title = "t1" /\ f.img \in {ImgNewJpg}
      \/ f.sku = Null /\ f.title = "t1" /\ f.img = ImgNewJpg }

\* The record lists the source can return.
RECURSIVE SeqsUpTo(_, _)
SeqsUpTo(S, n) ==
  IF n = 0 THEN {<<>>}
  ELSE LET shorter == SeqsUpTo(S, n - 1)
       IN  shorter \cup {Append(q, x) : q \in {p \in shorter : Len(p) = n - 1}, x \in S}

Sources == SeqsUpTo(SourceRecords, MaxRecs)

\* segments.pop()
Pop(segments) == segments[Len(segments)]

\* cleanAirtableRecord (lines 1210-1250): the image columns, the sku and
\* one of the columns mapped by fields[x] || null.
cleanAirtableRecord(fields) ==
  LET img == fields.img
      image_file ==
        IF img.kind = "named" THEN img.file
        ELSE IF img.kind = "url" THEN Pop(img.segments)
        ELSE Null
      airtable_image_url ==
        IF img.kind = "named" THEN img.url
        ELSE IF img.kind = "url" THEN img.href
        ELSE Null
  IN  [ sku |-> OrElse(fields.sku, Null),
        title |-> OrElse(fields.title, Null),
        image_file |-> image_file,
        airtable_image_url |-> airtable_image_url ]

\* ------------------------------------------------------------------------
\* State of the cron worker.
\* ------------------------------------------------------------------------
VARIABLES
  products,    \* D1 table products: sku -> row, or NoRow
  R2_BUCKET,   \* R2 bucket: key -> object body, or NoObject
  lastOp,      \* the operation that ran last
  sync,        \* what the last syncFromAirtable run did
  batch,       \* what the last scheduled run selected, met and returned
  results      \* the rows that the SELECT of an invocation of scheduled returned
               \* which has not yet run its loop: sku -> row, or NoRow

\* ------------------------------------------------------------------------
\* State of the syncAirtable worker.
\* ------------------------------------------------------------------------
VARIABLES
  airtable,    \* the records of the Airtable table, in the order it lists them
  DATABASE,    \* D1 with the V3 schema: the tables products and product_images
  result,      \* what the last syncAirtable run since the last edit returned
  run,         \* the runs without a fault since the last edit or fault, and the
               \* faults, page requests and answers of the last run since the
               \* last edit
  response     \* the Response to the last HTTP request since the last edit or run

cronVars == <<products, R2_BUCKET, lastOp, sync, batch, results>>
syncVars == <<airtable, DATABASE, result, run, response>>
vars == <<cronVars, syncVars>>

\* The primary keys the source can produce.
Skus == {"A", "B", "C"}
Files == {"a.jpg", "new.jpg"}
\* `${sku}/${image_file}`
r2Key(sku, image_file) == [sku |-> sku, file |-> image_file]
Keys == {r2Key(s, f) : s \in Skus, f \in Files}
\* No key.
NullKey == [nokey |-> TRUE]

\* The object an image URL serves: its bytes are named by the URL.
Body(url) == [bytes |-> url]

\* What the loop body of the cron handler meets for one product: whether R2
\* head throws, whether fetch throws, the status and the size in MB of the
\* answer, and whether R2 put throws. A step that is not reached has its
\* entry at the value of NoEnv.
ItemEnv ==
  { e \in [ headThrows : BOOLEAN, fetchThrows : BOOLEAN, status : {0, 200, 404},
            mb : {0, 1, MAX_IMAGE_MB + 1}, putThrows : BOOLEAN ] :
      /\ (e.headThrows \/ e.fetchThrows) => (e.status = 0 /\ ~(e.headThrows /\ e.fetchThrows))
      /\ (e.status = 200) <=> (e.mb # 0)
      /\ e.putThrows => e.mb = 1 }
NoEnv == [headThrows |-> FALSE, fetchThrows |-> FALSE, status |-> 0, mb |-> 0, putThrows |-> FALSE]

\* No run of that operation is the last operation.
NoResult == [none |-> TRUE]
\* env.USERNAME and env.PASSWORD: the credentials of the operator.
USERNAME == "admin"
PASSWORD == "pw"

\* The part of an Authorization header after the scheme: missing, not
\* Base64, or the Base64 of a text, given as its parts between the colons.
NoToken == [given |-> FALSE, valid |-> FALSE, parts |-> <<>>]
NotBase64 == [given |-> TRUE, valid |-> FALSE, parts |-> <<>>]
Base64(parts) == [given |-> TRUE, valid |-> TRUE, parts |-> parts]

\* The Authorization header of a request: none, or a scheme and the rest.
NoAuthorization == [present |-> FALSE, scheme |-> "", token |-> NoToken]
Authorization(scheme, token) == [present |-> TRUE, scheme |-> scheme, token |-> token]
AuthorizationHeaders ==
  { NoAuthorization,
    Authorization("Basic", NoToken),
    Authorization("Basic", NotBase64),
    Authorization("Basic", Base64(<<USERNAME, PASSWORD>>)),
    Authorization("Basic", Base64(<<USERNAME, "bad">>)),
    Authorization("Basic", Base64(<<USERNAME>>)),
    Authorization("Bearer", Base64(<<USERNAME, PASSWORD>>)) }

\* url.pathname as the tuple of its slashes and segments.
SyncPath == <<"/", "sync-airtable">>
Pathnames == {SyncPath, SyncPath \o <<"/">>, <<"/", "x">>}

Requests ==
  [method : {"POST", "GET"}, pathname : Pathnames, authorization : AuthorizationHeaders]
NoRequest == [method |-> "", pathname |-> <<>>, authorization |-> NoAuthorization]

\* No HTTP request was answered.
NoResponse == [status |-> 0, body |-> "none", request |-> NoRequest]
NoRun ==
  [ count |-> 0, requests |-> <<>>, returned |-> <<>>, configured |-> TRUE,
    failPage |-> 0, failChunk |-> 0, failAt |-> 0, ran |-> FALSE ]
NoSync == [ok |-> TRUE, written |-> {}, changed |-> {}, replaced |-> {}]
\* No invocation of the image batch is between its SELECT and its end.
NoResults == [s \in Skus |-> NoRow]
NoBatch ==
  [ selected |-> {}, reached |-> {}, env |-> [s \in Skus |-> NoEnv],
    outcome |-> [s \in Skus |-> "none"],
    puts |-> {}, committed |-> TRUE, replaced |-> {}, returned |-> Null ]

Init ==
  /\ products = [s \in Skus |-> NoRow]
  /\ R2_BUCKET = [k \in Keys |-> NoObject]
  /\ lastOp = "init"
  /\ sync = NoSync
  /\ batch = NoBatch
  /\ results = NoResults
  /\ airtable = <<>>
  /\ DATABASE = [products |-> {}, product_images |-> {}]
  /\ result = NoResult
  /\ run = NoRun
  /\ response = NoResponse

\* The blob key under which the product's image is recorded as copied: the
\* key of line 1057 once line 1083 has marked the row 'Y'.
image_local_key(tbl, sku) ==
  IF tbl[sku] # NoRow /\ tbl[sku].image_synced = "Y"
  THEN r2Key(sku, tbl[sku].image_file)
  ELSE NullKey

\* handleImageRequest (lines 1255-1274): R2 get of the key.
handleImageRequest(bucket, key) ==
  IF key \notin Keys \/ bucket[key] = NoObject
  THEN [status |-> 404, body |-> NoObject]
  ELSE [status |-> 200, body |-> bucket[key]]

\* ------------------------------------------------------------------------
\* syncFromAirtable (index.js 1111-1205)
\* ------------------------------------------------------------------------
\* Upsert whose DO UPDATE clause leaves image_synced as it is.
Upsert_keepsState(tbl, c) ==
  IF tbl[c.sku] = NoRow
  THEN [tbl EXCEPT ![c.sku] = [ title |-> c.title,
                                image_file |-> c.image_file,
                                airtable_image_url |-> c.airtable_image_url,
                                image_synced |-> "N" ]]
  ELSE [tbl EXCEPT ![c.sku] = [ title |-> c.title,
                                image_file |-> c.image_file,
                                airtable_image_url |-> c.airtable_image_url,
                                image_synced |-> tbl[c.sku].image_synced ]]

\* The INSERT ... ON CONFLICT(sku) DO UPDATE statement of lines 1157-1172,
\* bound to one cleaned record.
Upsert(tbl, c) ==
  IF tbl[c.sku] = NoRow
  THEN [tbl EXCEPT ![c.sku] = [ title |-> c.title,
                                image_file |-> c.image_file,
                                airtable_image_url |-> c.airtable_image_url,
                                image_synced |-> "N" ]]
  ELSE [tbl EXCEPT ![c.sku] = [ title |-> c.title,
                                image_file |-> c.image_file,
                                airtable_image_url |-> c.airtable_image_url,
                                image_synced |-> "N" ]]

\* DATABASE.batch(stmts): the statements in order, as one transaction.
RECURSIVE RunBatch(_, _)
RunBatch(tbl, stmts) ==
  IF stmts = <<>> THEN tbl
  ELSE RunBatch(Upsert(tbl, Head(stmts)), Tail(stmts))

\* d1Statements: one statement per record that has a sku (lines 1174-1187).
RECURSIVE d1Statements(_)
d1Statements(allRecords) ==
  IF allRecords = <<>> THEN <<>>
  ELSE LET cleaned == cleanAirtableRecord(Head(allRecords))
           rest == d1Statements(Tail(allRecords))
       IN  IF Falsy(cleaned.sku) THEN rest ELSE <<cleaned>> \o rest

\* d1Statements of every record list of the model.
StmtsOf == [r \in Sources |-> d1Statements(r)]

\* stmts.slice(i, i + n), i counted from 0
Slice(stmts, i, n) == SubSeq(stmts, i + 1, Min(i + n, Len(stmts)))

\* The write loop of lines 1194-1198: batch after batch; the batch numbered
\* failBatch (0: none) throws and leaves no effect, the loop ends there.
RECURSIVE WriteBatches(_, _, _, _)
WriteBatches(tbl, stmts, i, failBatch) ==
  IF i >= Len(stmts) THEN tbl
  ELSE IF failBatch = (i \div batchSize) + 1 THEN tbl
  ELSE WriteBatches(RunBatch(tbl, Slice(stmts, i, batchSize)), stmts, i + batchSize, failBatch)

NumBatches(stmts) == (Len(stmts) + batchSize - 1) \div batchSize

\* The statements that were committed.
Committed(stmts, failBatch) ==
  IF failBatch = 0 THEN stmts ELSE SubSeq(stmts, 1, Min((failBatch - 1) * batchSize, Len(stmts)))

\* The image reference the committed statements map for the sku: that of
\* the last of them.
MappedUrl(stmts, sku) ==
  LET idx == {i \in 1..Len(stmts) : stmts[i].sku = sku}
  IN  stmts[CHOOSE i \in idx : \A j \in idx : j <= i].airtable_image_url

syncFromAirtable(env, records, fetchOk, failBatch) ==
  LET stmts == IF Configured(env) /\ fetchOk THEN StmtsOf[records] ELSE <<>>
      done == Committed(stmts, failBatch)
      written == {done[i].sku : i \in 1..Len(done)}
      changed == {s \in written : /\ products[s] # NoRow
                                  /\ products[s].airtable_image_url # MappedUrl(done, s)}
  IN  /\ products' = WriteBatches(products, stmts, 0, failBatch)
      /\ sync' = [ ok |-> Configured(env) /\ fetchOk /\ failBatch = 0,
                   written |-> written,
                   changed |-> changed,
                   replaced |-> {s \in changed : products[s].image_synced = "Y"} ]
      /\ batch' = NoBatch
      /\ lastOp' = "sync"
      /\ UNCHANGED <<R2_BUCKET, results, syncVars>>

\* A run in which Airtable answers every page and D1 commits every batch,
\* or a run with a credential missing.
SyncFromAirtable ==
  \E env \in Credentials, records \in Sources :
    /\ ~Configured(env) => records = <<>>
    /\ syncFromAirtable(env, records, TRUE, 0)

\* ------------------------------------------------------------------------
\* scheduled (index.js 1027-1103)
\* ------------------------------------------------------------------------
\* A SELECT that also returns the rows marked 'F'.
Pending_retriesFailed(tbl) ==
  {s \in Skus : /\ tbl[s] # NoRow
                /\ tbl[s].airtable_image_url # Null
                /\ tbl[s].image_synced \in {"N", "F"}}

\* Rows the SELECT of lines 1033-1035 can return.
Pending(tbl) ==
  {s \in Skus : /\ tbl[s] # NoRow
                /\ tbl[s].airtable_image_url # Null
                /\ tbl[s].image_synced = "N"}

\* A loop body without the response.ok test of line 1070.
ItemOutcome_ignoresStatus(row, sku, e, bucket) ==
  IF Falsy(row.image_file) THEN "nofile"
  ELSE IF e.headThrows THEN "headerr"
  ELSE IF bucket[r2Key(sku, row.image_file)] # NoObject THEN "exists"
  ELSE IF e.fetchThrows THEN "neterr"
  ELSE IF e.putThrows THEN "puterr"
  ELSE "stored"

\* A loop body that requests the image without asking R2 for the object.
ItemOutcome_withoutHead(row, sku, e, bucket) ==
  IF Falsy(row.image_file) THEN "nofile"
  ELSE IF e.fetchThrows THEN "neterr"
  ELSE IF e.status # 200 THEN "http"
  ELSE IF e.putThrows THEN "puterr"
  ELSE "stored"

\* The loop body of lines 1045-1093 for one selected product: what happens.
\*   nofile   image_file is missing, nothing is requested
\*   headerr  R2 head throws
\*   exists   head finds an object under the key, the image is not requested
\*   neterr   fetch throws;  http  the answer is not ok
\*   puterr   R2 put throws; stored  the body was put under the key
ItemOutcome(row, sku, e, bucket) ==
  IF Falsy(row.image_file) THEN "nofile"
  ELSE IF e.headThrows THEN "headerr"
  ELSE IF bucket[r2Key(sku, row.image_file)] # NoObject THEN "exists"
  ELSE IF e.fetchThrows THEN "neterr"
  ELSE IF e.status # 200 THEN "http"
  ELSE IF e.putThrows THEN "puterr"
  ELSE "stored"

\* The 'Y' statement pushed only where the object existed already.
OutcomeState_onlyExisting(o) == IF o = "exists" THEN "Y" ELSE "F"

\* The value that the UPDATE statement pushed for an outcome sets.
OutcomeState(o) == IF o \in {"exists", "stored"} THEN "Y" ELSE "F"

\* The environments that differ in a step the loop body reaches.
EnvOf(row, sku, bucket) ==
  IF Falsy(row.image_file) THEN {NoEnv}
  ELSE IF bucket[r2Key(sku, row.image_file)] # NoObject
       THEN {e \in ItemEnv : ~e.fetchThrows /\ e.status = 0}
       ELSE {e \in ItemEnv : e.headThrows \/ e.fetchThrows \/ e.status # 0}

\* The products whose UPDATE statement is in d1UpdateStatements after the
\* loop over the products reached: the inner try and catch push one for
\* each of them.
Updated_untilFailure(reached, outcome) ==
  IF \E s \in reached : outcome[s] \in {"headerr", "neterr", "http", "puterr"}
  THEN {} ELSE reached
\* UPDATE statements whose WHERE clause names the pending state, not the sku.
Updated_allPending(reached, outcome) == reached \cup Pending(products)
Updated(reached, outcome) == reached

\* One invocation over the selected products. The loop reaches the
\* products of reached: all of sel, or fewer when the invocation is cut off
\* inside the loop, in which case line 1097 is never run.
\* rows holds, for the products of sel, the columns that the SELECT of line
\* 1033 returned; the UPDATE statements name the sku only and meet the
\* table as it is when the final batch runs.
loopAndUpdate(rows, sel, reached, env, d1Throws) ==
  LET outcome == [s \in Skus |->
                    IF s \in reached
                    THEN ItemOutcome(rows[s], s, env[s], R2_BUCKET) ELSE "none"]
      keyOf(s) == r2Key(s, rows[s].image_file)
      committed == reached = sel /\ ~d1Throws
  IN  /\ R2_BUCKET' = [k \in Keys |->
                         IF \E s \in reached : outcome[s] = "stored" /\ k = keyOf(s)
                         THEN Body(rows[k.sku].airtable_image_url)
                         ELSE R2_BUCKET[k]]
      /\ products' = [s \in Skus |->
                        IF s \in Updated(reached, outcome) /\ committed
                        THEN [products[s] EXCEPT !.image_synced = OutcomeState(outcome[s])]
                        ELSE products[s]]
      /\ batch' = [ selected |-> sel, reached |-> reached, env |-> env, outcome |-> outcome,
                    puts |-> {keyOf(s) : s \in {t \in reached : outcome[t] \in {"puterr", "stored"}}},
                    committed |-> committed,
                    replaced |-> sel \cap sync.replaced,
                    returned |-> Null ]
      /\ sync' = NoSync
      /\ lastOp' = "scheduled"
      /\ UNCHANGED syncVars

\* An invocation that nothing overlaps: the rows are those of the table.
scheduled(sel, reached, env, d1Throws) ==
  /\ loopAndUpdate(products, sel, reached, env, d1Throws)
  /\ UNCHANGED results

\* The functions f on the set D with f[s] in S[s].
RECURSIVE FunctionsOver(_, _)
FunctionsOver(D, S) ==
  IF D = {} THEN {<<>>}
  ELSE LET s == CHOOSE t \in D : TRUE
       IN  {(s :> v) @@ f : v \in S[s], f \in FunctionsOver(D \ {s}, S)}

Scheduled ==
  \E sel \in SUBSET Pending(products) :
    /\ Cardinality(sel) = Min(BATCH_SIZE, Cardinality(Pending(products)))
    /\ \E reached \in SUBSET sel :
         \E met \in FunctionsOver(reached, [s \in reached |-> EnvOf(products[s], s, R2_BUCKET)]),
            d1Throws \in BOOLEAN :
           /\ (d1Throws => reached = sel /\ sel # {})
           /\ scheduled(sel, reached,
                        [s \in Skus |-> IF s \in reached THEN met[s] ELSE NoEnv], d1Throws)

Next == SyncFromAirtable \/ Scheduled

Spec == Init /\ [][Next]_vars

\* The cron trigger fires again and again, and of its invocations those in
\* which the loop finishes at least one product and DATABASE.batch, when it
\* is reached, does not throw.
ScheduledOnTimer ==
  /\ Scheduled
  /\ batch'.reached # {}
  /\ (batch'.reached = batch'.selected) => batch'.committed

SpecTimer == Init /\ [][Next]_vars /\ WF_vars(ScheduledOnTimer)

\* ------------------------------------------------------------------------
\* scheduled overlapping syncFromAirtable, which the fetch handler starts
\* with ctx.waitUntil (index.js 1001-1007): the importer may commit between
\* the SELECT of an invocation and the rest of it.
\* ------------------------------------------------------------------------
\* Lines 1033-1040: the SELECT, with rows to work on.
Select ==
  /\ results = NoResults
  /\ \E sel \in SUBSET Pending(products) :
       /\ sel # {}
       /\ Cardinality(sel) = Min(BATCH_SIZE, Cardinality(Pending(products)))
       /\ results' = [s \in Skus |-> IF s \in sel THEN products[s] ELSE NoRow]
  /\ lastOp' = "select"
  /\ sync' = NoSync
  /\ batch' = NoBatch
  /\ UNCHANGED <<products, R2_BUCKET, syncVars>>

\* Lines 1043-1098 over the rows selected, R2 and D1 answering and the
\* invocation running to its end.
Finish ==
  LET sel == {s \in Skus : results[s] # NoRow}
      met == [s \in sel |->
                {e \in EnvOf(results[s], s, R2_BUCKET) :
                   ~e.headThrows /\ ~e.fetchThrows /\ ~e.putThrows /\ e.mb <= MAX_IMAGE_MB}]
  IN  /\ results # NoResults
      /\ \E env \in FunctionsOver(sel, met) :
           loopAndUpdate(results, sel, sel,
                         [s \in Skus |-> IF s \in sel THEN env[s] ELSE NoEnv], FALSE)
      /\ results' = NoResults

NextOverlap == SyncFromAirtable \/ Select \/ Finish

SpecOverlap == Init /\ [][NextOverlap]_vars

\* ========================================================================
\* The syncAirtable worker (index.js 4-176) on the V3 schema
\* ========================================================================
\* Longest Airtable table of the model.
MaxRows == 3
\* CHUNK_SIZE of syncAirtable (100 in the source), scaled to the model.
CHUNK_SIZE == 2
\* pageSize of the Airtable requests (100 in the source), scaled to the model.
pageSize == 2

\* The field 商品貨號 (sku) of a record: absent, or present with a text, the
\* text being the tuple of its characters.
Absent == [present |-> FALSE, text |-> <<>>]
Text(chars) == [present |-> TRUE, text |-> chars]
\* String(v): the text itself, "undefined" for an absent field.
String(v) == IF v.present THEN v.text ELSE <<"undefined">>

\* String.prototype.trim
RECURSIVE trimStart(_)
trimStart(t) == IF t # <<>> /\ Head(t) = " " THEN trimStart(Tail(t)) ELSE t
RECURSIVE trimEnd(_)
trimEnd(t) ==
  IF t # <<>> /\ t[Len(t)] = " " THEN trimEnd(SubSeq(t, 1, Len(t) - 1)) ELSE t
trim(t) == trimEnd(trimStart(t))

\* The field 商品圖檔 (images): an array of attachments, or not an array.
NotArray == [array |-> FALSE, items |-> <<>>]
Array(items) == [array |-> TRUE, items |-> items]
Att1 == [url |-> "u1", filename |-> "f1.jpg"]
Att1b == [url |-> "u1b", filename |-> "f1.jpg"]
Att2 == [url |-> "u2", filename |-> "f2.jpg"]
Att2b == [url |-> "u2b", filename |-> "f2.jpg"]
AttNoName == [url |-> "u3", filename |-> Null]

\* record.fields of the records the Airtable table can hold. The columns
\* brand and status are mapped like name and are left out.
AirtableRecords ==
  { [sku |-> Text(<<"A">>), name |-> "n1", images |-> Array(<<Att1>>)],
    [sku |-> Text(<<" ", "A">>), name |-> "n2", images |-> Array(<<Att1b, AttNoName, Att2, Att2b>>)],
    [sku |-> Text(<<"B">>), name |-> Null, images |-> NotArray],
    [sku |-> Absent, name |-> "n1", images |-> Array(<<Att2>>)],
    [sku |-> Text(<<>>), name |-> "n1", images |-> NotArray],
    [sku |-> Text(<<" ">>), name |-> "n2", images |-> NotArray] }

\* if (!fields['商品貨號']) continue
Skips_never(fields) == FALSE
Skips(fields) == ~fields.sku.present \/ fields.sku.text = <<>>

\* const sku = String(fields['商品貨號']).trim()
SkuOf(fields) == trim(String(fields.sku))

\* JSON.stringify(fields)
stringify(fields) == [json |-> fields]

\* productInsert.bind(sku, name || null, ..., JSON.stringify(fields))
ProductStmt(fields) ==
  [ kind |-> "product",
    row |-> [ sku |-> SkuOf(fields), name |-> OrElse(fields.name, Null),
              raw_json |-> stringify(fields) ] ]

\* The image statements of one record: one for each attachment that has a
\* url and a filename, its variant numbered by variantCounter.
\* if (img.url && img.filename)
IsImage_any(img) == TRUE
IsImage(img) == ~Falsy(img.url) /\ ~Falsy(img.filename)

RECURSIVE ImageStmtsOf(_, _, _)
ImageStmtsOf(sku, items, variantCounter) ==
  IF items = <<>> THEN <<>>
  ELSE LET img == Head(items)
       IN  IF IsImage(img)
           THEN <<[ kind |-> "image",
                    row |-> [ sku |-> sku, filename |-> img.filename, url |-> img.url,
                              variant |-> <<"v", variantCounter>> ] ]>>
                \o ImageStmtsOf(sku, Tail(items), variantCounter + 1)
           ELSE ImageStmtsOf(sku, Tail(items), variantCounter)

\* The statements the inner loop collects for one chunk.
RECURSIVE productStmts(_)
productStmts(chunk) ==
  IF chunk = <<>> THEN <<>>
  ELSE (IF Skips(Head(chunk)) THEN <<>> ELSE <<ProductStmt(Head(chunk))>>)
       \o productStmts(Tail(chunk))

RECURSIVE imageStmts(_)
imageStmts(chunk) ==
  IF chunk = <<>> THEN <<>>
  ELSE LET fields == Head(chunk)
       IN  (IF ~Skips(fields) /\ fields.images.array
            THEN ImageStmtsOf(SkuOf(fields), fields.images.items, 1)
            ELSE <<>>)
           \o imageStmts(Tail(chunk))

skusInChunk(chunk) ==
  {SkuOf(chunk[i]) : i \in {j \in 1..Len(chunk) : ~Skips(chunk[j])}}

\* DELETE FROM product_images WHERE sku IN (...)
deleteOldImagesStmt(chunk) == [kind |-> "delete", skus |-> skusInChunk(chunk)]

allStmts(chunk) == <<deleteOldImagesStmt(chunk)>> \o productStmts(chunk) \o imageStmts(chunk)

\* ------------------------------------------------------------------------
\* D1 with the V3 schema (part_000 81-99). A table is the set of its rows;
\* a statement yields whether it succeeded and the database it leaves.
\* ------------------------------------------------------------------------
\* INSERT OR REPLACE INTO products: the row with the same primary key sku is
\* deleted first, and with it, ON DELETE CASCADE, its product_images rows.
InsertOrReplaceProduct_insertOnly(db, row) ==
  IF \E r \in db.products : r.sku = row.sku
  THEN [ok |-> FALSE, db |-> db]
  ELSE [ok |-> TRUE, db |-> [db EXCEPT !.products = @ \cup {row}]]
InsertOrReplaceProduct(db, row) ==
  LET old == {r \in db.products : r.sku = row.sku}
      cascade == IF old = {} THEN {} ELSE {i \in db.product_images : i.sku = row.sku}
  IN  [ ok |-> TRUE,
        db |-> [ products |-> (db.products \ old) \cup {row},
                 product_images |-> db.product_images \ cascade ] ]

\* INSERT OR REPLACE INTO product_images: primary key (sku, filename), and
\* the FOREIGN KEY needs the products row of the sku.
InsertOrReplaceImage(db, row) ==
  IF ~\E r \in db.products : r.sku = row.sku
  THEN [ok |-> FALSE, db |-> db]
  ELSE LET old == {i \in db.product_images :
                     i.sku = row.sku /\ i.filename = row.filename}
       IN  [ ok |-> TRUE,
             db |-> [db EXCEPT !.product_images = (@ \ old) \cup {row}] ]

DeleteImages(db, skus) ==
  [ ok |-> TRUE,
    db |-> [db EXCEPT !.product_images = {i \in @ : i.sku \notin skus}] ]

Exec(db, st) ==
  CASE st.kind = "delete" -> DeleteImages(db, st.skus)
    [] st.kind = "product" -> InsertOrReplaceProduct(db, st.row)
    [] st.kind = "image" -> InsertOrReplaceImage(db, st.row)

RECURSIVE ExecAll(_, _)
ExecAll(db, stmts) ==
  IF stmts = <<>> THEN [ok |-> TRUE, db |-> db]
  ELSE LET r == Exec(db, Head(stmts))
       IN  IF r.ok THEN ExecAll(r.db, Tail(stmts)) ELSE r

\* env.DATABASE.batch(stmts): all statements or, when one fails or D1
\* throws, none.
DATABASE_batch_partial(db, stmts, throws) ==
  LET r == ExecAll(db, stmts)
  IN  IF throws \/ ~r.ok THEN [ok |-> FALSE, db |-> Exec(db, Head(stmts)).db] ELSE r
DATABASE_batch(db, stmts, throws) ==
  LET r == ExecAll(db, stmts)
  IN  IF throws \/ ~r.ok THEN [ok |-> FALSE, db |-> db] ELSE r

\* ------------------------------------------------------------------------
\* syncAirtable (index.js 4-176)
\* ------------------------------------------------------------------------
\* The loop over the chunks from record i on, batch number failChunk
\* throwing. It yields the database it leaves, the totals, and whether it
\* ran to its end.
\* allRecords.slice(i, i + CHUNK_SIZE)
ChunkAt(allRecords, i) == SubSeq(allRecords, i + 1, Min(i + CHUNK_SIZE, Len(allRecords)))

RECURSIVE Chunks(_, _, _, _, _)
Chunks(db, allRecords, i, failChunk, totals) ==
  IF i >= Len(allRecords) THEN [ok |-> TRUE, db |-> db, totals |-> totals]
  ELSE LET chunk == ChunkAt(allRecords, i)
           n == totals.totalBatches + 1
       IN  IF skusInChunk(chunk) = {}
           THEN Chunks(db, allRecords, i + CHUNK_SIZE, failChunk,
                       [totals EXCEPT !.totalBatches = n])
           ELSE LET r == DATABASE_batch(db, allStmts(chunk), failChunk = n)
                IN  IF ~r.ok
                    THEN [ok |-> FALSE, db |-> r.db, totals |-> totals]
                    ELSE Chunks(r.db, allRecords, i + CHUNK_SIZE, failChunk,
                                [ totalProductsUpserted |->
                                    totals.totalProductsUpserted + Len(productStmts(chunk)),
                                  totalImagesUpserted |->
                                    totals.totalImagesUpserted + Len(imageStmts(chunk)),
                                  totalBatches |-> n ])

\* Number of chunks of a record list.
NumChunks(allRecords) == (Len(allRecords) + CHUNK_SIZE - 1) \div CHUNK_SIZE

\* No cursor: data.offset is undefined, the first request carries none.
NoOffset == 0
\* The answer of Airtable to a request with that cursor: the next pageSize
\* records, and as offset the number of records listed so far when there
\* are more.
listPage(table, offset) ==
  LET upto == Min(offset + pageSize, Len(table))
  IN  [ records |-> SubSeq(table, offset + 1, upto),
        offset |-> IF upto < Len(table) THEN upto ELSE NoOffset ]

\* Number of pages of a table; an empty table has one empty page.
NumPages(table) ==
  IF Len(table) = 0 THEN 1 ELSE (Len(table) + pageSize - 1) \div pageSize

\* if (!res.ok) throw, for request number n; a fetch that throws ends the
\* loop the same way.
ResponseFails_ignored(failPage, n) == FALSE
ResponseFails(failPage, n) == failPage = n

\* while (offset)
MorePages_never(data) == FALSE
MorePages(data) == data.offset # NoOffset

\* The do-while loop of the page requests from the request with that cursor
\* on, request number failPage being answered with an error status or not at
\* all (0: none is). It yields the records, the cursors of the requests
\* sent and the size and cursor of the answers received.
RECURSIVE fetchPages(_, _, _, _, _, _)
fetchPages(table, offset, allRecords, requests, returned, failPage) ==
  LET sent == Append(requests, offset)
      data == listPage(table, offset)
      got == Append(returned, [size |-> Len(data.records), offset |-> data.offset])
  IN  IF ResponseFails(failPage, Len(sent))
      THEN [ok |-> FALSE, allRecords |-> allRecords, requests |-> sent, returned |-> returned]
      ELSE IF MorePages(data)
      THEN fetchPages(table, data.offset, allRecords \o data.records, sent, got, failPage)
      ELSE [ ok |-> TRUE, allRecords |-> allRecords \o data.records,
             requests |-> sent, returned |-> got ]

\* One run: request number failPage fails (0: none does); batch number
\* failChunk throws (0: none does).
syncAirtable(env, failPage, failChunk) ==
  LET fetched == fetchPages(airtable, NoOffset, <<>>, <<>>, <<>>, failPage)
      fetchOk == fetched.ok
      allRecords == fetched.allRecords
      out == Chunks(DATABASE, allRecords, 0, failChunk,
                    [totalProductsUpserted |-> 0, totalImagesUpserted |-> 0,
                     totalBatches |-> 0])
  IN  /\ IF ~fetchOk
         THEN /\ DATABASE' = DATABASE
              /\ result' = [ok |-> FALSE, message |-> "Airtable API"]
         ELSE IF Len(allRecords) = 0
         THEN /\ DATABASE' = DATABASE
              /\ result' = [ok |-> TRUE, recordsFetched |-> 0]
         ELSE /\ DATABASE' = out.db
              /\ result' =
                   IF out.ok
                   THEN [ ok |-> TRUE,
                          recordsFetched |-> Len(allRecords),
                          productsUpserted |-> out.totals.totalProductsUpserted,
                          imagesUpserted |-> out.totals.totalImagesUpserted,
                          totalBatches |-> out.totals.totalBatches ]
                   ELSE [ok |-> FALSE, message |-> "D1 batch"]
      /\ run' = [ count |-> IF fetchOk /\ failChunk = 0 THEN Min(run.count + 1, 2) ELSE 0,
                  requests |-> fetched.requests,
                  returned |-> fetched.returned,
                  configured |-> Configured(env),
                  failPage |-> failPage, failChunk |-> failChunk, failAt |-> 0,
                  ran |-> TRUE ]
      /\ UNCHANGED <<airtable, cronVars>>

\* Airtable answers a request that lacks the token, the base or the table
\* with an error status: such a run has its first request fail.
SyncAirtable ==
  \E env \in Credentials, failPage \in 0..NumPages(airtable),
     failChunk \in 0..NumChunks(airtable) :
    /\ failPage = 0 \/ failChunk = 0
    /\ failChunk # 0 => skusInChunk(ChunkAt(airtable, (failChunk - 1) * CHUNK_SIZE)) # {}
    /\ ~Configured(env) => failPage = 1
    /\ syncAirtable(env, failPage, failChunk)
    /\ response' = NoResponse

\* The users of the Airtable table add a record or remove one.
AddRecordOf(records) ==
  \E fields \in records :
    /\ Len(airtable) < MaxRows
    /\ airtable' = Append(airtable, fields)
    /\ result' = NoResult
    /\ run' = NoRun
    /\ response' = NoResponse
    /\ UNCHANGED <<DATABASE, cronVars>>

AddRecord == AddRecordOf(AirtableRecords)

RemoveRecord ==
  \E i \in 1..Len(airtable) :
    /\ airtable' = SubSeq(airtable, 1, i - 1) \o SubSeq(airtable, i + 1, Len(airtable))
    /\ result' = NoResult
    /\ run' = NoRun
    /\ response' = NoResponse
    /\ UNCHANGED <<DATABASE, cronVars>>

NextSync == SyncAirtable \/ AddRecord \/ RemoveRecord

SpecSync == Init /\ [][NextSync]_vars

\* ------------------------------------------------------------------------
\* fetch (index.js 193-369): the route POST /sync-airtable
\* ------------------------------------------------------------------------
\* url.pathname.replace(/\/+$/, "") || "/"
RECURSIVE stripSlashes(_)
stripSlashes(pathname) ==
  IF pathname # <<>> /\ pathname[Len(pathname)] = "/"
  THEN stripSlashes(SubSeq(pathname, 1, Len(pathname) - 1))
  ELSE pathname
pathOf(pathname) == IF stripSlashes(pathname) = <<>> THEN <<"/">> ELSE stripSlashes(pathname)

\* requireBasicAuth of lines 226-232: whether atob threw, and else the
\* value returned. A header that is missing reads as "", whose first part
\* is not "Basic"; a text without a colon leaves pass undefined.
requireBasicAuth(request) ==
  LET auth == request.authorization
      parts == auth.token.parts
  IN  IF auth.scheme # "Basic" \/ ~auth.token.given THEN [threw |-> FALSE, ok |-> FALSE]
      ELSE IF ~auth.token.valid THEN [threw |-> TRUE, ok |-> FALSE]
      ELSE [ threw |-> FALSE,
             ok |-> /\ parts[1] = USERNAME
                    /\ Len(parts) >= 2 /\ parts[2] = PASSWORD ]

\* The handler for one request. A throw of requireBasicAuth reaches the
\* catch of line 366; a request for another route ends at line 365.
fetch(request, env, failPage, failChunk) ==
  LET auth == requireBasicAuth(request)
      answer(status, body) == [status |-> status, body |-> body, request |-> request]
  IN  IF request.method = "POST" /\ pathOf(request.pathname) = SyncPath
      THEN IF auth.threw
           THEN /\ response' = answer(500, "Internal Error")
                /\ UNCHANGED <<airtable, DATABASE, result, run, cronVars>>
           ELSE IF ~auth.ok
           THEN /\ response' = answer(401, "Unauthorized")
                /\ UNCHANGED <<airtable, DATABASE, result, run, cronVars>>
           ELSE /\ syncAirtable(env, failPage, failChunk)
                /\ response' = answer(IF result'.ok THEN 200 ELSE 500, "result")
      ELSE /\ response' = answer(404, "Not Found")
           /\ UNCHANGED <<airtable, DATABASE, result, run, cronVars>>

Fetch ==
  \E request \in Requests, env \in Credentials, failPage \in 0..NumPages(airtable),
     failChunk \in 0..NumChunks(airtable) :
    /\ failPage = 0 \/ failChunk = 0
    /\ failChunk # 0 => skusInChunk(ChunkAt(airtable, (failChunk - 1) * CHUNK_SIZE)) # {}
    /\ ~Configured(env) => failPage = 1
    /\ (~requireBasicAuth(request).ok \/ request.method # "POST") =>
         (Configured(env) /\ failPage = 0 /\ failChunk = 0)
    /\ fetch(request, env, failPage, failChunk)

\* The table holds records of the sku A only.
AddRecordForFetch == AddRecordOf({f \in AirtableRecords : f.sku = Text(<<"A">>)})

NextFetch == Fetch \/ AddRecordForFetch \/ RemoveRecord

SpecFetch == Init /\ [][NextFetch]_vars

\* ------------------------------------------------------------------------
\* The admin API of src/unnamed/part_005 on the tables of
\* migrations/0001_init.sql: products with sku UNIQUE NOT NULL, and
\* product_images with UNIQUE(sku, filename) and no foreign key.
\* ------------------------------------------------------------------------
AdminSkus == {<<"A">>, <<"B">>}
AdminNames == {Absent, Text(<<"n1">>), Text(<<"n2">>)}
AdminFilenames == {Absent, Text(<<" ">>), Text(<<"f1">>), Text(<<" ", "f2">>)}

\* json(data, {status})
jsonResponse(status, body) == [status |-> status, body |-> body, request |-> NoRequest]

\* createProduct: sku and name are required; the INSERT fails on a sku that
\* has a row.
createProduct(payload) ==
  IF ~payload.name.present \/ payload.name.text = <<>>
  THEN /\ response' = jsonResponse(400, "Missing field")
       /\ UNCHANGED DATABASE
  ELSE IF \E p \in DATABASE.products : p.sku = payload.sku
  THEN /\ response' = jsonResponse(400, "UNIQUE constraint failed")
       /\ UNCHANGED DATABASE
  ELSE /\ DATABASE' = [DATABASE EXCEPT !.products =
                         @ \cup {[sku |-> payload.sku, name |-> payload.name.text]}]
       /\ response' = jsonResponse(200, "ok")

\* deleteProduct: two statements, each run on its own; statement number
\* failAt throws (0: none does).
deleteProduct(sku, failAt) ==
  LET images == IF failAt = 1 THEN DATABASE.product_images
                ELSE {i \in DATABASE.product_images : i.sku # sku}
      rows == IF failAt # 0 THEN DATABASE.products
              ELSE {p \in DATABASE.products : p.sku # sku}
  IN  /\ DATABASE' = [products |-> rows, product_images |-> images]
      /\ response' = IF failAt = 0 THEN jsonResponse(200, "ok")
                     ELSE jsonResponse(400, "error")

\* addImageRecord: the file name is required; the INSERT fails on a
\* (sku, filename) that has a row. Nothing reads the table products.
addImageRecord(sku, payload) ==
  LET filename == trim(payload.filename.text)
  IN  IF ~payload.filename.present \/ filename = <<>>
      THEN /\ response' = jsonResponse(400, "Missing filename")
           /\ UNCHANGED DATABASE
      ELSE IF \E i \in DATABASE.product_images : i.sku = sku /\ i.filename = filename
      THEN /\ response' = jsonResponse(400, "UNIQUE constraint failed")
           /\ UNCHANGED DATABASE
      ELSE /\ DATABASE' = [DATABASE EXCEPT !.product_images =
                             @ \cup {[sku |-> sku, filename |-> filename,
                                      r2_key |-> <<sku, filename>>]}]
           /\ response' = jsonResponse(200, "ok")

CreateProduct ==
  \E sku \in AdminSkus, name \in AdminNames :
    /\ createProduct([sku |-> sku, name |-> name])
    /\ UNCHANGED <<airtable, result, run, cronVars>>

DeleteProduct ==
  \E sku \in AdminSkus, failAt \in 0..2 :
    /\ deleteProduct(sku, failAt)
    /\ UNCHANGED <<airtable, result, run, cronVars>>

AddImageRecord ==
  \E sku \in AdminSkus, filename \in AdminFilenames :
    /\ addImageRecord(sku, [filename |-> filename])
    /\ UNCHANGED <<airtable, result, run, cronVars>>

NextAdmin == CreateProduct \/ DeleteProduct \/ AddImageRecord

SpecAdmin == Init /\ [][NextAdmin]_vars

\* ========================================================================
\* The syncAirtable of src/unnamed/part_004, which runs every statement on
\* its own. It is modelled on the variables of the syncAirtable worker:
\* DATABASE.products is the set of the rows of products, and
\* DATABASE.product_images the rows of product_images in the order of their
\* AUTOINCREMENT ids. The column updated_at, a reading of the clock, and
\* the columns brand, price, category, width, height and variant are left
\* out.
\* ========================================================================
\* const sku = (f.sku || f.SKU || '').toString().trim()
skuOfFields(f) == IF f.sku.present THEN trim(f.sku.text) ELSE <<>>

\* The array products: one entry for each record with a sku.
RECURSIVE mapProducts(_)
mapProducts(allRecords) ==
  IF allRecords = <<>> THEN <<>>
  ELSE LET f == Head(allRecords)
       IN  (IF skuOfFields(f) = <<>> THEN <<>>
            ELSE <<[sku |-> skuOfFields(f), name |-> OrElse(f.name, "")]>>)
           \o mapProducts(Tail(allRecords))

\* The entries of the array images of one record.
RECURSIVE imagesOfRecord(_, _)
imagesOfRecord(sku, items) ==
  IF items = <<>> THEN <<>>
  ELSE <<[ sku |-> sku, filename |-> OrElse(Head(items).filename, ""),
           url |-> OrElse(Head(items).url, "") ]>>
       \o imagesOfRecord(sku, Tail(items))

\* The array images.
RECURSIVE mapImages(_)
mapImages(allRecords) ==
  IF allRecords = <<>> THEN <<>>
  ELSE LET f == Head(allRecords)
       IN  (IF skuOfFields(f) # <<>> /\ f.images.array
            THEN imagesOfRecord(skuOfFields(f), f.images.items)
            ELSE <<>>)
           \o mapImages(Tail(allRecords))

\* The rows of a sequence that satisfy keep, in their order.
RECURSIVE Filter(_, _)
Filter(rows, keep) ==
  IF rows = <<>> THEN <<>>
  ELSE (IF keep[Head(rows).sku] THEN <<Head(rows)>> ELSE <<>>) \o Filter(Tail(rows), keep)

\* new Set(chunkProducts.map(p => p.sku)), in the order of the Set.
RECURSIVE skuSet(_, _)
skuSet(chunkProducts, seen) ==
  IF chunkProducts = <<>> THEN <<>>
  ELSE LET sku == Head(chunkProducts).sku
       IN  IF sku \in seen THEN skuSet(Tail(chunkProducts), seen)
           ELSE <<sku>> \o skuSet(Tail(chunkProducts), seen \cup {sku})

\* All skus a statement can name.
SkuTexts == {skuOfFields(f) : f \in AirtableRecords}

\* The statements one pass of the loop runs, in the order it runs them: the
\* upserts of the chunk's products, the deletes of the images of its skus,
\* the inserts of the images of those skus.
chunkStatements(mapped, images, i) ==
  LET chunkProducts == SubSeq(mapped, i + 1, Min(i + CHUNK_SIZE, Len(mapped)))
      skus == skuSet(chunkProducts, {})
      inSet == [t \in SkuTexts |-> \E k \in 1..Len(skus) : skus[k] = t]
      chunkImages == Filter(images, inSet)
  IN  [k \in 1..Len(chunkProducts) |->
         [kind |-> "productUpsert", sku |-> chunkProducts[k].sku, row |-> chunkProducts[k]]]
      \o [k \in 1..Len(skus) |->
            [kind |-> "imageDeleteBySku", sku |-> skus[k], row |-> NoRow]]
      \o [k \in 1..Len(chunkImages) |->
            [kind |-> "imageInsert", sku |-> chunkImages[k].sku, row |-> chunkImages[k]]]

\* for (let i = 0; i < allRecords.length; i += CHUNK_SIZE)
RECURSIVE runStatements(_, _, _, _)
runStatements(allRecords, mapped, images, i) ==
  IF i >= Len(allRecords) THEN <<>>
  ELSE chunkStatements(mapped, images, i)
       \o runStatements(allRecords, mapped, images, i + CHUNK_SIZE)

\* The statements of a run over the records, in the order of their run().
StatementsOf(allRecords) ==
  runStatements(allRecords, mapProducts(allRecords), mapImages(allRecords), 0)

\* statement.run(): each statement commits on its own.
runStatement(db, st) ==
  CASE st.kind = "productUpsert" ->
         [db EXCEPT !.products = {r \in @ : r.sku # st.sku} \cup {st.row}]
    [] st.kind = "imageDeleteBySku" ->
         [db EXCEPT !.product_images =
            Filter(@, [t \in SkuTexts |-> t # st.sku])]
    [] st.kind = "imageInsert" ->
         [db EXCEPT !.product_images = Append(@, st.row)]

RECURSIVE runAll(_, _)
runAll(db, stmts) ==
  IF stmts = <<>> THEN db ELSE runAll(runStatement(db, Head(stmts)), Tail(stmts))

\* Number of entries of a sequence of statements of that kind.
CountKind(stmts, kind) == Cardinality({k \in 1..Len(stmts) : stmts[k].kind = kind})

\* One run: request number failPage fails (0: none does); statement number
\* failAt throws, or the run is cut off before it (0: every statement runs).
syncAirtableByStatement(failPage, failAt) ==
  LET fetched == fetchPages(airtable, NoOffset, <<>>, <<>>, <<>>, failPage)
      stmts == IF fetched.ok THEN StatementsOf(fetched.allRecords) ELSE <<>>
      ran == IF failAt = 0 THEN stmts ELSE SubSeq(stmts, 1, failAt - 1)
  IN  /\ DATABASE' = runAll(DATABASE, ran)
      /\ result' =
           IF fetched.ok /\ failAt = 0
           THEN [ ok |-> TRUE,
                  products |-> CountKind(stmts, "productUpsert"),
                  images |-> CountKind(stmts, "imageInsert"),
                  batches |-> NumChunks(fetched.allRecords) ]
           ELSE [ok |-> FALSE, error |-> IF fetched.ok THEN "D1" ELSE "Airtable"]
      /\ run' = [ NoRun EXCEPT !.ran = TRUE, !.failPage = failPage, !.failAt = failAt,
                               !.requests = fetched.requests, !.returned = fetched.returned ]
      /\ response' = NoResponse
      /\ UNCHANGED <<airtable, cronVars>>

SyncAirtableByStatement ==
  \E failPage \in 0..NumPages(airtable), failAt \in 0..Len(StatementsOf(airtable)) :
    /\ failPage = 0 \/ failAt = 0
    /\ syncAirtableByStatement(failPage, failAt)

\* The tables of part_004 before the first run.
InitByStatement ==
  /\ products = [s \in Skus |-> NoRow]
  /\ R2_BUCKET = [k \in Keys |-> NoObject]
  /\ lastOp = "init"
  /\ sync = NoSync
  /\ batch = NoBatch
  /\ results = NoResults
  /\ airtable = <<>>
  /\ DATABASE = [products |-> {}, product_images |-> <<>>]
  /\ result = NoResult
  /\ run = NoRun
  /\ response = NoResponse

\* The records with a blank sku are skipped like the record without one;
\* one record that is skipped is kept.
AddRecordByStatement ==
  AddRecordOf({f \in AirtableRecords : f.sku.present => skuOfFields(f) # <<>>})

NextByStatement == SyncAirtableByStatement \/ AddRecordByStatement \/ RemoveRecord

SpecByStatement == InitByStatement /\ [][NextByStatement]_vars

\* ========================================================================
\* Properties of the cron worker (Spec)
\* ========================================================================
\* The rows a step leaves in place.
Kept == {s \in Skus : products[s] # NoRow /\ products'[s] # NoRow}

C2_UnchangedReferenceKeepsState ==
  [][ lastOp' = "sync" =>
        \A s \in sync'.written \ sync'.changed :
          products[s] # NoRow =>
            /\ products'[s].image_synced = products[s].image_synced
            /\ image_local_key(products', s) = image_local_key(products, s) ]_vars

\* C3: the image-fetch state of a product changes only from pending to done
\* or failed, in a scheduled run, and back to pending only in an import
\* that maps another image reference than the stored one.
C3_OnlyLifecycleTransitions ==
  [][ \A s \in Kept :
        LET old == products[s].image_synced
            new == products'[s].image_synced
        IN  old # new =>
              \/ old = "N" /\ new \in {"Y", "F"} /\ lastOp' = "scheduled"
              \/ new = "N" /\ lastOp' = "sync" /\ s \in sync'.changed ]_vars

\* C4: a scheduled run selects at most BATCH_SIZE products, each of them
\* pending with an image reference when selected, and it requests images
\* and writes states of selected products only.
C4_BatchIsBoundedAndPending ==
  [][ lastOp' = "scheduled" =>
        /\ Cardinality(batch'.selected) <= BATCH_SIZE
        /\ \A s \in batch'.selected :
             /\ products[s] # NoRow
             /\ products[s].image_synced = "N"
             /\ products[s].airtable_image_url # Null
        /\ \A s \in Skus :
             (products'[s] # products[s] \/ batch'.env[s] # NoEnv \/ batch'.outcome[s] # "none")
               => s \in batch'.selected
        /\ \A k \in Keys : R2_BUCKET'[k] # R2_BUCKET[k] => k.sku \in batch'.selected ]_vars

\* The limit left a pending product for a later run.
C4_Witness ==
  /\ lastOp = "scheduled"
  /\ Cardinality(batch.selected) = BATCH_SIZE
  /\ Pending(products) # {}

\* The request for the product's image was answered with status 200 and a
\* body within the size limit, and R2 put took the body.
FetchedOk(s) ==
  /\ ~batch.env[s].headThrows /\ ~batch.env[s].fetchThrows
  /\ batch.env[s].status = 200
  /\ batch.env[s].mb <= MAX_IMAGE_MB
  /\ ~batch.env[s].putThrows

\* C5: a pending product whose image is fetched successfully, within the
\* size limit, and stored (no R2 or D1 error in the run for it) is done
\* after the batch, has a local key, and a get of that key returns exactly
\* the fetched bytes.
C5_FetchedImageIsDoneAndServed ==
  (lastOp = "scheduled" /\ batch.committed) =>
    \A s \in batch.selected :
      FetchedOk(s) =>
        /\ products[s].image_synced = "Y"
        /\ image_local_key(products, s) # NullKey
        /\ handleImageRequest(R2_BUCKET, image_local_key(products, s))
             = [status |-> 200, body |-> Body(products[s].airtable_image_url)]

C5_Witness ==
  /\ lastOp = "scheduled" /\ batch.committed
  /\ \E s \in batch.selected :
       /\ FetchedOk(s)
       /\ products[s].image_synced = "Y"
       /\ R2_BUCKET[r2Key(s, products[s].image_file)] = Body(products[s].airtable_image_url)

C7_OversizeIsFailedWithoutPut ==
  (lastOp = "scheduled" /\ batch.committed) =>
    \A s \in batch.selected :
      batch.env[s].mb > MAX_IMAGE_MB =>
        /\ products[s].image_synced = "F"
        /\ r2Key(s, products[s].image_file) \notin batch.puts

\* No request of the run for the product's image failed.
NothingFailed(s) ==
  /\ ~batch.env[s].headThrows /\ ~batch.env[s].fetchThrows
  /\ batch.env[s].status # 404
  /\ ~batch.env[s].putThrows

\* C8: a done product whose image reference the source replaced is pending
\* without a local key after the import, and after the next image batch, if
\* nothing failed for it, it is done and the object at its local key holds
\* the bytes of the new image reference.
C8_ReplacedImageIsFetchedAgain ==
  /\ lastOp = "sync" =>
       \A s \in sync.replaced :
         products[s].image_synced = "N" /\ image_local_key(products, s) = NullKey
  /\ (lastOp = "scheduled" /\ batch.committed) =>
       \A s \in batch.replaced :
         NothingFailed(s) =>
           /\ products[s].image_synced = "Y"
           /\ handleImageRequest(R2_BUCKET, image_local_key(products, s)).body
                = Body(products[s].airtable_image_url)

\* ========================================================================
\* Properties of the syncAirtable worker (SpecSync)
\* ========================================================================
\* No two rows of a table have the same primary key.
NoDuplicatedRows(db) ==
  /\ \A p, q \in db.products : p.sku = q.sku => p = q
  /\ \A i, j \in db.product_images :
       (i.sku = j.sku /\ i.filename = j.filename) => i = j

\* A record lacks the identifier: the field is absent or the empty text.
\* The records of the Airtable table that have the identifier, and those
\* that lack it.
LacksSku(fields) == fields.sku \in {Absent, Text(<<>>)}
WithSku == {i \in 1..Len(airtable) : ~LacksSku(airtable[i])}
WithoutSku == {i \in 1..Len(airtable) : LacksSku(airtable[i])}

\* Number of attachments of a record that have a url and a filename.
RECURSIVE Attachments(_)
Attachments(items) ==
  IF items = <<>> THEN 0
  ELSE (IF ~Falsy(Head(items).url) /\ ~Falsy(Head(items).filename) THEN 1 ELSE 0)
       + Attachments(Tail(items))

RECURSIVE SumOver(_, _)
SumOver(S, f) ==
  IF S = {} THEN 0
  ELSE LET x == CHOOSE y \in S : TRUE IN f[x] + SumOver(S \ {x}, f)

C10_RecordsWithoutSkuAreSkipped ==
  run.count >= 1 =>
    /\ result.ok
    /\ \A p \in DATABASE.products : ~LacksSku(p.raw_json.json)
    /\ \A i \in DATABASE.product_images : \E p \in DATABASE.products : p.sku = i.sku
    /\ Len(airtable) > 0 =>
         /\ result.productsUpserted = Cardinality(WithSku)
         /\ result.imagesUpserted =
              SumOver(WithSku, [i \in WithSku |->
                                  IF airtable[i].images.array
                                  THEN Attachments(airtable[i].images.items) ELSE 0])
    /\ \A i \in WithSku : \E p \in DATABASE.products : p.sku = SkuOf(airtable[i])

\* A run has ended over a table that holds a record without the identifier,
\* with an attachment, in one chunk with a record that has the identifier.
C10_Witness ==
  /\ run.count >= 1
  /\ \E i \in WithoutSku, j \in WithSku :
       /\ (i - 1) \div CHUNK_SIZE = (j - 1) \div CHUNK_SIZE
       /\ airtable[i].images.array /\ Attachments(airtable[i].images.items) > 0
       /\ \E p \in DATABASE.products : p.raw_json.json = airtable[j]

\* C11: no products row has an empty sku, the sku of a record whose
\* identifier is made of blanks only included (violated: line 76 tests the
\* text before line 81 trims it).
C11_NoEmptySku ==
  \A p \in DATABASE.products : p.sku # <<>>

RECURSIVE SumSizes(_)
SumSizes(returned) ==
  IF returned = <<>> THEN 0 ELSE Head(returned).size + SumSizes(Tail(returned))

C13_NoRequestWithoutCredentials ==
  [][ ~run'.configured =>
        /\ run'.requests = <<>>
        /\ DATABASE' = DATABASE
        /\ ~result'.ok ]_vars

\* C14: in a run of syncAirtable whose request number k fails, the failed
\* request is the last request of the run, no cursor is requested twice, the
\* run returns a failure, and the tables keep every row they held.
C14_FailedPageEndsTheRun ==
  [][ run'.failPage # 0 =>
        /\ Len(run'.requests) = run'.failPage
        /\ Len(run'.returned) = run'.failPage - 1
        /\ \A j, k \in 1..Len(run'.requests) :
             run'.requests[j] = run'.requests[k] => j = k
        /\ ~result'.ok
        /\ DATABASE' = DATABASE ]_vars

\* The second request of a run has failed, over tables that hold rows of an
\* earlier run.
C14_Witness ==
  /\ run.failPage = 2 /\ run.configured
  /\ Len(run.requests) = 2 /\ Len(run.returned) = 1
  /\ Len(airtable) > pageSize
  /\ DATABASE.products # {} /\ DATABASE.product_images # {}
  /\ ~result.ok

\* The tables after the first n batches of a run over the Airtable table,
\* all of them committed.
AfterBatches(db, n) ==
  Chunks(db, SubSeq(airtable, 1, Min(n * CHUNK_SIZE, Len(airtable))), 0, 0,
         [totalProductsUpserted |-> 0, totalImagesUpserted |-> 0, totalBatches |-> 0]).db

C16_ImageBatchReturnsAResult ==
  lastOp = "scheduled" => batch.returned # Null

\* The products row and the product_images rows of one sku.
SkuView(db, sku) ==
  [ row |-> {r \in db.products : r.sku = sku},
    images |-> Filter(db.product_images, [t \in SkuTexts |-> t = sku]) ]

\* The tables after every statement of the first n passes of the loop of a
\* run over the Airtable table.
AfterPasses(db, n) ==
  LET allRecords == airtable
      mapped == mapProducts(allRecords)
      images == mapImages(allRecords)
      pass(k) == chunkStatements(mapped, images, (k - 1) * CHUNK_SIZE)
      upTo[k \in 0..n] == IF k = 0 THEN db ELSE runAll(upTo[k - 1], pass(k))
  IN  upTo[n]

\* C17: whatever statement of a run of syncAirtable throws or is cut off,
\* every sku has in the tables the products row and the product_images rows
\* it had before the run or those that a whole number of passes of the loop
\* leave it: its upsert and the replacement of its images are both
\* committed or both not (violated in part_004, which runs each statement on
\* its own).
C17_UpsertAndImagesCommitTogether ==
  [][ run'.ran =>
        \A sku \in SkuTexts :
          \E n \in 0..NumChunks(airtable) :
            SkuView(DATABASE', sku) = SkuView(AfterPasses(DATABASE, n), sku) ]_vars

\* The product of the row is marked failed and no run of the importer has
\* set it back to pending since.
MarkedFailed(row) == row # NoRow /\ row.image_synced = "F"

Succeeds(row, sku, e, bucket) ==
  /\ ~Falsy(row.image_file)
  /\ ~e.headThrows
  /\ \/ bucket[r2Key(sku, row.image_file)] # NoObject
     \/ ~e.fetchThrows /\ e.status = 200 /\ ~e.putThrows

\* C19: in an invocation of the image batch that runs to its end, every
\* selected product ends done or failed by its own outcome alone, whatever
\* happened to the other selected products.
C19_ItemsFailOnTheirOwn ==
  [][ (lastOp' = "scheduled" /\ batch'.committed) =>
        \A s \in batch'.selected :
          products'[s].image_synced =
            IF Succeeds(products[s], s, batch'.env[s], R2_BUCKET) THEN "Y" ELSE "F" ]_vars

\* An invocation in which one product failed and another one was stored
\* and marked done.
C19_Witness ==
  /\ lastOp = "scheduled"
  /\ batch.committed
  /\ \E s, t \in batch.selected :
       /\ batch.outcome[s] \in {"nofile", "neterr", "http", "puterr"}
       /\ products[s].image_synced = "F"
       /\ batch.outcome[t] = "stored"
       /\ products[t].image_synced = "Y"

\* The last invocation of the image batch was cut off inside its loop,
\* after it had finished some of the selected products.
CutOff ==
  /\ lastOp = "scheduled"
  /\ batch.reached # {}
  /\ batch.reached # batch.selected

\* C20: after an invocation of the image batch that was cut off, every
\* product it had finished and whose image it had put into the bucket is
\* recorded as done.
C20_FinishedItemsAreDurable ==
  CutOff =>
    \A s \in batch.reached :
      batch.outcome[s] = "stored" => products[s].image_synced = "Y"

\* The identifiers of the records the Airtable table holds now.
SourceSkus == {trim(String(airtable[i].sku)) : i \in WithSku}

\* C21: after a run of the importer that returned ok, the skus of the rows
\* of products are the identifiers of the records of the Airtable table:
\* every record with an identifier has its row, and a sku that the table no
\* longer holds has none.
C21_StoreAgreesWithSource ==
  (run.ran /\ result # NoResult /\ result.ok) =>
    {r.sku : r \in DATABASE.products} = SourceSkus

\* The request is one to the sync trigger.
ToSyncTrigger(request) ==
  request.method = "POST" /\ request.pathname \in {SyncPath, SyncPath \o <<"/">>}

\* The request carries the Basic credentials of the operator.
CarriesCredentials(request) ==
  request.authorization = Authorization("Basic", Base64(<<USERNAME, PASSWORD>>))

\* C22: a request to the sync trigger without the Basic credentials of the
\* operator is answered with status 401 and starts no run of the importer:
\* no request goes to Airtable and the store is left as it was.
C22_NoCredentialsNoImport ==
  [][ ( /\ response' # response
        /\ ToSyncTrigger(response'.request)
        /\ ~CarriesCredentials(response'.request) ) =>
        /\ response'.status = 401
        /\ run' = run
        /\ DATABASE' = DATABASE ]_vars

\* C23: every row of product_images has the sku of a row of products, after
\* a delete and after any sequence of create, delete and add-image
\* operations.
C23_ImagesBelongToProducts ==
  \A i \in DATABASE.product_images : \E p \in DATABASE.products : p.sku = i.sku

\* The outcomes of a loop body that called fetch for the image.
Fetched == {"neterr", "http", "puterr", "stored"}

\* C24: when R2 holds an object under the key of a product the image batch
\* reaches, and head answers, the batch neither requests the image nor puts
\* an object for the product, leaves the object as it is, and marks the
\* product done when it commits its updates.
C24_ExistingObjectIsNotFetchedAgain ==
  [][ lastOp' = "scheduled" =>
        \A s \in batch'.reached :
          ( /\ ~Falsy(products[s].image_file)
            /\ R2_BUCKET[r2Key(s, products[s].image_file)] # NoObject
            /\ ~batch'.env[s].headThrows ) =>
            /\ batch'.outcome[s] \notin Fetched
            /\ r2Key(s, products[s].image_file) \notin batch'.puts
            /\ R2_BUCKET'[r2Key(s, products[s].image_file)] =
                 R2_BUCKET[r2Key(s, products[s].image_file)]
            /\ batch'.committed => products'[s].image_synced = "Y" ]_vars

\* An invocation found the object of a pending product in R2 and marked
\* the product done.
C24_Witness ==
  /\ lastOp = "scheduled"
  /\ batch.committed
  /\ \E s \in batch.reached :
       /\ batch.outcome[s] = "exists"
       /\ R2_BUCKET[r2Key(s, products[s].image_file)] # NoObject
       /\ products[s].image_synced = "Y"

ImagesOf(images) ==
  LET items == IF images.array THEN images.items ELSE <<>>
      valid == {k \in 1..Len(items) : items[k].url # Null /\ items[k].filename # Null}
      last == {k \in valid : \A j \in valid : items[j].filename = items[k].filename => j <= k}
  IN  {[filename |-> items[k].filename, url |-> items[k].url] : k \in last}

\* The rows of product_images of the sku, by filename and url.
ImageRowsOf(db, sku) ==
  {[filename |-> i.filename, url |-> i.url] : i \in {j \in db.product_images : j.sku = sku}}

\* The records that are the only one of their sku.
AloneWithSku ==
  {i \in WithSku : \A j \in WithSku : SkuOf(airtable[j]) = SkuOf(airtable[i]) => j = i}

C27_DoneHasItsObject ==
  \A s \in Skus :
    (products[s] # NoRow /\ products[s].image_synced = "Y") =>
      handleImageRequest(R2_BUCKET, r2Key(s, products[s].image_file)).status = 200

\* C28: syncAirtable changes the tables only in a run that has received
\* every page of the Airtable table, the last one without a cursor, and a
\* run in which the request of any page fails leaves the tables as they
\* were before it.
C28_NoWriteBeforeTheLastPage ==
  [][ /\ DATABASE' # DATABASE =>
           /\ run'.ran /\ run'.failPage = 0
           /\ Len(run'.returned) = NumPages(airtable)
           /\ run'.returned[Len(run'.returned)].offset = NoOffset
           /\ SumSizes(run'.returned) = Len(airtable)
      /\ (run'.ran /\ run'.failPage # 0) => DATABASE' = DATABASE ]_vars

\* The request of a later page has failed after a page with a record that
\* has a sku was received, and the tables hold no row of that record.
C28_Witness ==
  /\ run.ran /\ run.failPage > 1
  /\ Len(run.returned) >= 1
  /\ \E i \in WithSku :
       /\ i <= run.returned[1].size
       /\ ~\E p \in DATABASE.products : p.sku = SkuOf(airtable[i])

\* The records that are the last one of their sku in the order of the table.
LastWithSku ==
  {i \in WithSku : \A j \in WithSku : SkuOf(airtable[j]) = SkuOf(airtable[i]) => j <= i}

\* C29: after a run of syncAirtable that met no fault, every sku of the
\* table has one products row, that of the last record of the sku, and the
\* product_images rows of the sku are the images of that last record only.
C29_LastRecordOfASkuWins ==
  run.count >= 1 =>
    \A i \in LastWithSku :
      /\ \E p \in DATABASE.products : p.sku = SkuOf(airtable[i])
      /\ \A p \in DATABASE.products :
           p.sku = SkuOf(airtable[i]) => p = ProductStmt(airtable[i]).row
      /\ ImageRowsOf(DATABASE, SkuOf(airtable[i])) = ImagesOf(airtable[i].images)

\* C30: an invocation of the image batch changes, in D1, the column
\* image_synced of products it selected and nothing else: the other
\* columns of those rows, the rows it did not select and the tables of the
\* other schema stay as they were; and every object R2 held is still there
\* as it was.
C30_BatchChangesTheStateOnly ==
  [][ lastOp' = "scheduled" =>
        /\ \A s \in Skus \ batch'.selected : products'[s] = products[s]
        /\ \A s \in batch'.selected :
             /\ products'[s] # NoRow
             /\ products'[s] = [products[s] EXCEPT !.image_synced = products'[s].image_synced]
        /\ DATABASE' = DATABASE
        /\ \A k \in Keys : R2_BUCKET[k] # NoObject => R2_BUCKET'[k] = R2_BUCKET[k] ]_vars

\* An invocation has marked a product it selected while another pending
\* product, which it did not select, and an object of an earlier
\* invocation are there.
C30_Witness ==
  /\ lastOp = "scheduled" /\ batch.committed
  /\ \E s \in batch.selected : products[s].image_synced = "Y"
  /\ \E t \in Skus \ batch.selected : products[t] # NoRow /\ products[t].image_synced = "N"
  /\ \E k \in Keys \ batch.puts : R2_BUCKET[k] # NoObject

====
